---- MODULE Spec2Model ----
(***************************************************************************)
(* Verification model of minisource/go-common: the per-key rate limiter    *)
(* (limiter/ip_limiter.go), the retry engine of the HTTP and gRPC outbound *)
(* clients (httpclient, grpcclient/client.go), the backoff policy, and the *)
(* token validation path with its TTL cache and its scope check            *)
(* (http/middleware/service_auth_remote.go, grpc/auth_interceptor.go).     *)
(*                                                                         *)
(* Each subsystem has its own specification (SpecLimiter, SpecRetry,       *)
(* SpecBackoff, SpecAuth, SpecScope); the variables of the other           *)
(* subsystems stay at their idle values.  A sync.Mutex critical section is *)
(* one atomic action.                                                      *)
(***************************************************************************)
EXTENDS Integers, Sequences, FiniteSets, TLC

VARIABLES
    now,          \* the wall clock (time.Now), in clock ticks
    \* ---- limiter.IPRateLimiter
    ips,          \* i.ips: key -> entry (present, limiter, lastSeen)
    ttl,          \* i.ttl
    nextId,       \* identity of the next *rate.Limiter that rate.NewLimiter allocates
    stopped,      \* i.stopped
    stopClosed,   \* number of close(i.stopClean) calls performed
    tickPending,  \* a tick is buffered in ticker.C
    sweepPc,      \* cleanupLoop: "select" | "exited"
    lpc,          \* per caller: "idle" | "add" (between GetLimiter's unlock and AddIP) | "done"
    lop,          \* per caller: the exported method it called
    lkey,         \* per caller: the ip argument
    lret,         \* per caller: the *rate.Limiter returned
    lgen,         \* per caller: epoch of its key when the call started (history)
    epoch,        \* per key: how often the key's entry was removed or replaced by a direct AddIP (history)
    lastPass      \* the keys the most recent cleanup pass removed and kept (history)

    ,
    \* ---- the retry engine (httpclient.Client.Do, grpcclient.createRetryInterceptor)
    engine,        \* "http" | "grpc": which client this is
    cfg,           \* the Config.RetryConfig the caller supplied to NewClient
    retryConfig,   \* the policy in effect (Client.retryConfig / the interceptor's cfg)
    pc,            \* "new" | "idle" | "loop" | "wait" | "attempt" | "done"
    attempt,       \* the loop variable
    lastErr,       \* the local lastErr
    ctxDone,       \* the call's ctx is cancelled or past its deadline
    sel,           \* the select of the wait: "none" | "blocked" | "ctx" | "timer"
    result,        \* what the call returned
    attempts,      \* number of attempts performed by this call (history)
    waits,         \* the delays handed to time.After, in order (history)
    outcomes,      \* the outcome of each attempt, in order (history)
    waitCancelled, \* the attempt index whose wait the cancellation interrupted, or 0 (history)
    \* ---- the backoff function applied to a policy
    bpolicy,       \* the RetryConfig under evaluation
    bn,            \* the attempt number last evaluated (0: none yet)
    bout,          \* the delays computed for bn
    \* ---- the token validation path
    mw,            \* "http" (RemoteServiceAuthMiddleware) | "grpc" (UnaryAuthInterceptor)
    acfg,          \* per middleware instance: its configuration
    tcache,        \* the package-level token cache: token -> entry
    lastSet,       \* per token: the last set not followed by an invalidation or clear (history)
    reqs,          \* per request: its position, inputs, validator answer, outcome
    \* ---- the scope check applied to a list of granted scopes
    sgranted,      \* the granted scopes
    srequired,     \* the required scope
    sout,          \* what hasScopeInList and HasScope answered
    \* ---- cache.MemoryCache
    items,         \* c.items: full key -> item (present, value, expiresAt)
    options,       \* c.options (KeyPrefix, DefaultTTL)
    stopChan,      \* number of close(c.stopChan) calls performed
    mpanic,        \* a goroutine panicked: the process is gone
    mtick,         \* a tick is buffered in the cleanup goroutine's ticker.C
    mloop,         \* the cleanup goroutine: "select" | "exited"
    mret,          \* the most recent call on the cache and what it returned
    \* ---- shutdown.Manager (and HealthAwareManager)
    hooks,         \* m.hooks: the registered hooks, in registration order
    started,       \* m.started
    sigChan,       \* the signal goroutine of Start: "none" | "waiting" | "received"
    doneClosed,    \* number of close(m.done) calls performed
    isHealthy,     \* HealthAwareManager.isHealthy
    spanic,        \* a goroutine panicked: the process is gone
    runs,          \* per caller of shutdown(): its position, snapshot, loop index (and history)
    hookRuns,      \* per hook: how often it was invoked (history)
    waiter         \* a caller of Wait: "idle" | "blocked" | "released"

limVars == <<ips, ttl, nextId, stopped, stopClosed, tickPending, sweepPc,
             lpc, lop, lkey, lret, lgen, epoch, lastPass>>

retryVars == <<engine, cfg, retryConfig, pc, attempt, lastErr, ctxDone, sel, result,
               attempts, waits, outcomes, waitCancelled>>

backoffVars == <<bpolicy, bn, bout>>

authVars == <<mw, acfg, tcache, lastSet, reqs>>

scopeVars == <<sgranted, srequired, sout>>

memVars == <<items, options, stopChan, mpanic, mtick, mloop, mret>>

shutVars == <<hooks, started, sigChan, doneClosed, isHealthy, spanic, runs,
              hookRuns, waiter>>

vars == <<now, limVars, retryVars, backoffVars, authVars, scopeVars, memVars, shutVars>>

\* What the actions of one subsystem leave alone.
notLimVars == <<retryVars, backoffVars, authVars, scopeVars, memVars, shutVars>>
notRetryVars == <<now, limVars, backoffVars, authVars, scopeVars, memVars, shutVars>>
notBackoffVars == <<now, limVars, retryVars, authVars, scopeVars, memVars, shutVars>>
notAuthVars == <<limVars, retryVars, backoffVars, scopeVars, memVars, shutVars>>
notScopeVars == <<now, limVars, retryVars, backoffVars, authVars, memVars, shutVars>>
notMemVars == <<limVars, retryVars, backoffVars, authVars, scopeVars, shutVars>>
notShutVars == <<now, limVars, retryVars, backoffVars, authVars, scopeVars, memVars>>

----------------------------------------------------------------------------
(* Bounds *)

MaxTime == 2
NumCallers == 2
NumKeys == 2
MaxBuckets == 2
MaxTTL == 1

Callers == 1..NumCallers
Keys == 1..NumKeys

----------------------------------------------------------------------------
(* The clock *)

Tick ==
    /\ now < MaxTime
    /\ now' = now + 1

----------------------------------------------------------------------------
(* limiter.IPRateLimiter *)

NoEntry == [present |-> FALSE, limiter |-> 0, lastSeen |-> 0]

limiterEntry(l, t) == [present |-> TRUE, limiter |-> l, lastSeen |-> t]

NoPass == [ran |-> FALSE, gone |-> {}, kept |-> {}]

\* NewIPRateLimiterWithTTL: an empty table, the cleanup goroutine started.
LimInit ==
    /\ ips = [k \in Keys |-> NoEntry]
    /\ ttl \in 1..MaxTTL
    /\ nextId = 1
    /\ stopped = FALSE
    /\ stopClosed = 0
    /\ tickPending = FALSE
    /\ sweepPc = "select"
    /\ lpc = [c \in Callers |-> "idle"]
    /\ lop = [c \in Callers |-> "none"]
    /\ lkey = [c \in Callers |-> 1]
    /\ lret = [c \in Callers |-> 0]
    /\ lgen = [c \in Callers |-> 0]
    /\ epoch = [k \in Keys |-> 0]
    /\ lastPass = NoPass

LimIdle ==
    /\ ips = [k \in Keys |-> NoEntry]
    /\ ttl = 1
    /\ nextId = 1
    /\ stopped = FALSE
    /\ stopClosed = 0
    /\ tickPending = FALSE
    /\ sweepPc = "exited"
    /\ lpc = [c \in Callers |-> "idle"]
    /\ lop = [c \in Callers |-> "none"]
    /\ lkey = [c \in Callers |-> 1]
    /\ lret = [c \in Callers |-> 0]
    /\ lgen = [c \in Callers |-> 0]
    /\ epoch = [k \in Keys |-> 0]
    /\ lastPass = NoPass

\* The body of AddIP under i.mu: allocate a limiter, store it under ip
\* (overwriting whatever is there), return it.
AddIPBody(c, k) ==
    /\ nextId <= MaxBuckets
    /\ ips' = [ips EXCEPT ![k] = limiterEntry(nextId, now)]
    /\ nextId' = nextId + 1
    /\ lret' = [lret EXCEPT ![c] = nextId]
    /\ lpc' = [lpc EXCEPT ![c] = "done"]

\* A caller invokes the exported AddIP directly.
AddIP(c, k) ==
    /\ lpc[c] = "idle"
    /\ AddIPBody(c, k)
    /\ lop' = [lop EXCEPT ![c] = "AddIP"]
    /\ lkey' = [lkey EXCEPT ![c] = k]
    /\ epoch' = [epoch EXCEPT ![k] = @ + 1]
    /\ lgen' = [lgen EXCEPT ![c] = epoch[k] + 1]
    /\ UNCHANGED <<now, ttl, stopped, stopClosed, tickPending, sweepPc, lastPass>>
    /\ UNCHANGED notLimVars

\* GetLimiter, lines 136-146: lock, look ip up; if it exists refresh lastSeen
\* and return its limiter; otherwise unlock and go on to call AddIP.
GetLimiter(c, k) ==
    /\ lpc[c] = "idle"
    /\ lop' = [lop EXCEPT ![c] = "GetLimiter"]
    /\ lkey' = [lkey EXCEPT ![c] = k]
    /\ lgen' = [lgen EXCEPT ![c] = epoch[k]]
    /\ IF ips[k].present
         THEN /\ ips' = [ips EXCEPT ![k].lastSeen = now]
              /\ lret' = [lret EXCEPT ![c] = ips[k].limiter]
              /\ lpc' = [lpc EXCEPT ![c] = "done"]
         ELSE /\ lpc' = [lpc EXCEPT ![c] = "add"]
              /\ UNCHANGED <<ips, lret>>
    /\ UNCHANGED <<now, ttl, nextId, stopped, stopClosed, tickPending, sweepPc, epoch,
                   lastPass>>
    /\ UNCHANGED notLimVars

\* GetLimiter, line 141: return i.AddIP(ip), a second critical section.
GetLimiterAdd(c) ==
    /\ lpc[c] = "add"
    /\ AddIPBody(c, lkey[c])
    /\ UNCHANGED <<now, ttl, stopped, stopClosed, tickPending, sweepPc, lop, lkey, lgen, epoch,
                   lastPass>>
    /\ UNCHANGED notLimVars

\* The caller takes the returned limiter and is free to call again.
LimReturn(c) ==
    /\ lpc[c] = "done"
    /\ lpc' = [lpc EXCEPT ![c] = "idle"]
    /\ lop' = [lop EXCEPT ![c] = "none"]
    /\ lret' = [lret EXCEPT ![c] = 0]
    /\ lgen' = [lgen EXCEPT ![c] = 0]
    /\ lkey' = [lkey EXCEPT ![c] = 1]
    /\ UNCHANGED <<now, ips, ttl, nextId, stopped, stopClosed, tickPending, sweepPc, epoch,
                   lastPass>>
    /\ UNCHANGED notLimVars

\* An expiry test that also removes a key last seen exactly ttl ago.
ExpiredInclusive(k) == ips[k].present /\ ips[k].lastSeen <= now - ttl

\* cleanup: the keys whose lastSeen is before now - ttl.
Expired(k) == ips[k].present /\ ips[k].lastSeen < now - ttl

cleanup ==
    /\ ips' = [k \in Keys |-> IF Expired(k) THEN NoEntry ELSE ips[k]]
    /\ epoch' = [k \in Keys |-> IF Expired(k) THEN epoch[k] + 1 ELSE epoch[k]]
    /\ lastPass' = [ran |-> TRUE, gone |-> {k \in Keys : Expired(k)},
                    kept |-> {k \in Keys : ips[k].present /\ ~Expired(k)}]

\* Len: the number of tracked keys.
LimLen(table) == Cardinality({k \in Keys : table[k].present})

\* time.Ticker delivers a tick into ticker.C (capacity 1) until ticker.Stop.
TickerFire ==
    /\ sweepPc = "select"
    /\ ~tickPending
    /\ tickPending' = TRUE
    /\ UNCHANGED <<now, ips, ttl, nextId, stopped, stopClosed, sweepPc,
                   lpc, lop, lkey, lret, lgen, epoch, lastPass>>
    /\ UNCHANGED notLimVars

\* cleanupLoop's select, case <-ticker.C: run cleanup.
SweepTick ==
    /\ sweepPc = "select"
    /\ tickPending
    /\ tickPending' = FALSE
    /\ cleanup
    /\ UNCHANGED <<now, ttl, nextId, stopped, stopClosed, sweepPc, lpc, lop, lkey, lret, lgen>>
    /\ UNCHANGED notLimVars

\* cleanupLoop's select, case <-i.stopClean: return (the deferred ticker.Stop runs).
SweepExit ==
    /\ sweepPc = "select"
    /\ stopClosed > 0
    /\ sweepPc' = "exited"
    /\ tickPending' = FALSE
    /\ UNCHANGED <<now, ips, ttl, nextId, stopped, stopClosed, lpc, lop, lkey, lret, lgen, epoch,
                   lastPass>>
    /\ UNCHANGED notLimVars

\* A Stop that closes stopClean whether or not it is already closed.
StopCloseAlways(c) ==
    /\ lpc[c] = "idle"
    /\ stopClosed' = stopClosed + 1 /\ stopped' = TRUE
    /\ lpc' = [lpc EXCEPT ![c] = "done"]
    /\ lop' = [lop EXCEPT ![c] = "Stop"]
    /\ UNCHANGED <<now, ips, ttl, nextId, tickPending, sweepPc, lkey, lret, lgen, epoch,
                   lastPass>>
    /\ UNCHANGED notLimVars

\* A caller invokes Stop: under i.mu, close stopClean unless already stopped.
Stop(c) ==
    /\ lpc[c] = "idle"
    /\ IF ~stopped
         THEN stopClosed' = stopClosed + 1 /\ stopped' = TRUE
         ELSE UNCHANGED <<stopClosed, stopped>>
    /\ lpc' = [lpc EXCEPT ![c] = "done"]
    /\ lop' = [lop EXCEPT ![c] = "Stop"]
    /\ UNCHANGED <<now, ips, ttl, nextId, tickPending, sweepPc, lkey, lret, lgen, epoch,
                   lastPass>>
    /\ UNCHANGED notLimVars

\* Clear: replace the table by an empty one.
Clear ==
    /\ \E k \in Keys : ips[k].present
    /\ ips' = [k \in Keys |-> NoEntry]
    /\ epoch' = [k \in Keys |-> IF ips[k].present THEN epoch[k] + 1 ELSE epoch[k]]
    /\ UNCHANGED <<now, ttl, nextId, stopped, stopClosed, tickPending, sweepPc,
                   lpc, lop, lkey, lret, lgen, lastPass>>
    /\ UNCHANGED notLimVars

LimTick == Tick /\ UNCHANGED limVars /\ UNCHANGED notLimVars

LimNext ==
    \/ \E c \in Callers, k \in Keys : GetLimiter(c, k)
    \/ \E c \in Callers : GetLimiterAdd(c)
    \/ \E c \in Callers, k \in Keys : AddIP(c, k)
    \/ \E c \in Callers : LimReturn(c)
    \/ TickerFire
    \/ SweepTick
    \/ SweepExit
    \/ \E c \in Callers : Stop(c)
    \/ Clear
    \/ LimTick

----------------------------------------------------------------------------
(* The retry policy and the backoff function.                               *)
(* A time.Duration is an integer count of nanoseconds.  BackoffFactor is a  *)
(* float64; it is kept as the fraction BackoffNum / BackoffDen with         *)
(* BackoffDen a power of two, so every product below is exact in float64    *)
(* and the model computes it exactly.                                       *)

MaxK == 2           \* largest MaxRetries a caller supplies
MaxInitialDelay == 1

HTTPStatuses == {200, 404, 503}          \* http.StatusOK, NotFound, ServiceUnavailable
GRPCCodes == {0, 5, 14}                  \* codes.OK, NotFound, Unavailable

\* DefaultRetryConfig (both packages).  Its delays are written in
\* milliseconds (500ms, 5s): 5s in nanoseconds exceeds the integers TLC
\* computes with, and 500ms * 2^k is a whole number of milliseconds.
DefaultRetryConfig(e) ==
    [MaxRetries |-> 3, InitialDelay |-> 500, MaxDelay |-> 5000,
     BackoffNum |-> 2, BackoffDen |-> 1,
     Retryable |-> IF e = "http" THEN {408, 429, 500, 502, 503, 504}
                                 ELSE {14, 8, 4, 13}]

\* The policies a caller supplies.
SuppliedPolicies(e) ==
    [MaxRetries : 0..MaxK,
     InitialDelay : 1..MaxInitialDelay,
     MaxDelay : {MaxInitialDelay + 2},
     BackoffNum : {2, 3}, BackoffDen : {1},
     Retryable : IF e = "http" THEN {{}, {503}, {404, 503}} ELSE {{}, {14}, {5, 14}}]

\* pow (both packages): result := 1.0; for i := 0; i < int(exp); i++ { result *= base }.
\* The result is the fraction powNum / powDen.
RECURSIVE powNum(_, _)
powNum(c, exp) == IF exp <= 0 THEN 1 ELSE c.BackoffNum * powNum(c, exp - 1)

RECURSIVE powDen(_, _)
powDen(c, exp) == IF exp <= 0 THEN 1 ELSE c.BackoffDen * powDen(c, exp - 1)

\* float64 -> time.Duration truncates toward zero (the values here are >= 0).
TruncDiv(a, b) == a \div b

\* A backoff whose exponent is the attempt number instead of attempt - 1.
calculateBackoffOffByOne(c, n) ==
    IF c.InitialDelay * powNum(c, n) > c.MaxDelay * powDen(c, n)
      THEN c.MaxDelay
      ELSE TruncDiv(c.InitialDelay * powNum(c, n), powDen(c, n))

\* grpcclient.calculateBackoff.
calculateBackoff(c, n) ==
    IF c.InitialDelay * powNum(c, n - 1) > c.MaxDelay * powDen(c, n - 1)
      THEN c.MaxDelay
      ELSE TruncDiv(c.InitialDelay * powNum(c, n - 1), powDen(c, n - 1))

\* httpclient.Client.calculateBackoff, on c.retryConfig.
httpCalculateBackoff(c, n) ==
    IF c.InitialDelay * powNum(c, n - 1) > c.MaxDelay * powDen(c, n - 1)
      THEN c.MaxDelay
      ELSE TruncDiv(c.InitialDelay * powNum(c, n - 1), powDen(c, n - 1))

Backoff(e, c, n) == IF e = "http" THEN httpCalculateBackoff(c, n) ELSE calculateBackoff(c, n)

\* Client.shouldRetry / shouldRetryCode: membership in the configured list.
shouldRetry(c, code) == code \in c.Retryable

----------------------------------------------------------------------------
(* The backoff function on its own: a policy is drawn, the function is      *)
(* applied to attempt numbers.                                              *)

MaxDelayBound == 4
MaxBackoffN == 4

BackoffPolicies ==
    { c \in [MaxRetries : {3}, InitialDelay : 1..MaxDelayBound, MaxDelay : 1..MaxDelayBound,
             BackoffNum : {1, 2, 3, 5}, BackoffDen : {1, 2, 4}, Retryable : {{}}] :
        <<c.BackoffNum, c.BackoffDen>> \in {<<2, 1>>, <<3, 2>>, <<5, 4>>, <<1, 2>>} }

BackoffInit ==
    /\ bpolicy \in BackoffPolicies
    /\ bn = 0
    /\ bout = [grpc |-> 0, http |-> 0, grpcNext |-> 0]

BackoffIdle ==
    /\ bpolicy = DefaultRetryConfig("grpc")
    /\ bn = 0
    /\ bout = [grpc |-> 0, http |-> 0, grpcNext |-> 0]

\* calculateBackoff is called with attempt n (and, for comparison, n + 1).
ComputeBackoff ==
    /\ \E n \in 1..MaxBackoffN :
         /\ bn' = n
         /\ bout' = [grpc |-> calculateBackoff(bpolicy, n),
                     http |-> httpCalculateBackoff(bpolicy, n),
                     grpcNext |-> calculateBackoff(bpolicy, n + 1)]
    /\ UNCHANGED bpolicy
    /\ UNCHANGED notBackoffVars

BackoffNext == ComputeBackoff

----------------------------------------------------------------------------
(* The retry engine: httpclient.Client.Do and the closure returned by       *)
(* grpcclient.createRetryInterceptor.                                       *)

ServiceName == "svc"

NilErr == [src |-> "nil", code |-> 0]
TransportErr == [src |-> "transport", code |-> 0]   \* doRequest returned an error
CtxErr == [src |-> "ctx", code |-> 0]                \* ctx.Err()
StatusErr(code) == [src |-> "status", code |-> code] \* fmt.Errorf("HTTP %d: %s", ...)
RPCErr(code) == [src |-> "rpc", code |-> code]       \* the error the invoker returned

NoResult == [kind |-> "none", code |-> 0, err |-> NilErr, service |-> ""]

\* What one attempt can come back with: ok = (err == nil), and the HTTP
\* status or gRPC code.
Outcomes(e) ==
    IF e = "http"
      THEN [ok : {TRUE}, code : HTTPStatuses] \cup {[ok |-> FALSE, code |-> 0]}
      ELSE {[ok |-> (c = 0), code |-> c] : c \in GRPCCodes}

\* The error value an attempt leaves in lastErr.
ErrOf(e, o) ==
    IF e = "http"
      THEN IF o.ok THEN StatusErr(o.code) ELSE TransportErr
      ELSE RPCErr(o.code)

\* An attempt that the engine classifies as retryable.
IsRetryable(e, c, o) ==
    IF e = "http" THEN ~o.ok \/ shouldRetry(c, o.code)
                  ELSE ~o.ok /\ shouldRetry(c, o.code)

\* A failure (not a success) that is not retryable.
IsTerminalFailure(e, c, o) ==
    IF e = "http" THEN o.ok /\ o.code >= 400 /\ ~shouldRetry(c, o.code)
                  ELSE ~o.ok /\ ~shouldRetry(c, o.code)

IsSuccess(e, c, o) ==
    IF e = "http" THEN o.ok /\ o.code < 400 /\ ~shouldRetry(c, o.code)
                  ELSE o.ok

CallIdle ==
    /\ attempt = 0
    /\ lastErr = NilErr
    /\ ctxDone = FALSE
    /\ sel = "none"
    /\ result = NoResult
    /\ attempts = 0
    /\ waits = << >>
    /\ outcomes = << >>
    /\ waitCancelled = 0

RetryInit ==
    /\ engine \in {"http", "grpc"}
    /\ cfg \in SuppliedPolicies(engine)
    /\ retryConfig = cfg
    /\ pc = "new"
    /\ CallIdle

RetryIdle ==
    /\ engine = "http"
    /\ cfg = DefaultRetryConfig("http")
    /\ retryConfig = cfg
    /\ pc = "new"
    /\ CallIdle

\* NewClient (both packages): a supplied policy with MaxRetries == 0 is
\* replaced by DefaultRetryConfig().
NewClientPolicy(e, c) == IF c.MaxRetries = 0 THEN DefaultRetryConfig(e) ELSE c

NewClient ==
    /\ pc = "new"
    /\ retryConfig' = NewClientPolicy(engine, cfg)
    /\ pc' = "idle"
    /\ UNCHANGED <<engine, cfg, attempt, lastErr, ctxDone, sel, result,
                   attempts, waits, outcomes, waitCancelled>>
    /\ UNCHANGED notRetryVars

\* A call enters Do / the interceptor: var lastErr error; attempt := 0.
DoBegin ==
    /\ pc = "idle"
    /\ pc' = "loop"
    /\ attempt' = 0
    /\ lastErr' = NilErr
    /\ ctxDone' \in BOOLEAN          \* the caller's ctx may already be done
    /\ UNCHANGED <<engine, cfg, retryConfig, sel, result, attempts, waits, outcomes,
                   waitCancelled>>
    /\ UNCHANGED notRetryVars

\* The call returns to its caller.
Finish(r) ==
    /\ pc' = "done"
    /\ result' = r

\* A loop that stops one attempt early.
LoopContinuesStrict(c, a) == a < c.MaxRetries

\* The loop condition attempt <= MaxRetries.
LoopContinues(c, a) == a <= c.MaxRetries

\* A loop head that skips the wait before the second attempt.
LoopHeadNoFirstWait ==
    /\ pc = "loop"
    /\ IF ~LoopContinues(retryConfig, attempt)
         THEN /\ Finish([kind |-> "unavailable", code |-> 0, err |-> lastErr,
                         service |-> ServiceName])
              /\ UNCHANGED <<sel, waits>>
         ELSE IF attempt <= 1
           THEN /\ pc' = "attempt"
                /\ UNCHANGED <<sel, waits, result>>
           ELSE /\ waits' = Append(waits, Backoff(engine, retryConfig, attempt))
                /\ pc' = "wait"
                /\ sel' = IF ctxDone THEN "ctx" ELSE "blocked"
                /\ UNCHANGED result
    /\ UNCHANGED <<engine, cfg, retryConfig, attempt, lastErr, ctxDone,
                   attempts, outcomes, waitCancelled>>
    /\ UNCHANGED notRetryVars

\* The loop head: leave the loop with the ServiceUnavailableError, or start
\* the first attempt, or enter the select of the wait.  A select whose case
\* is ready at entry takes it (either one if both are ready); otherwise the
\* goroutine blocks.
LoopHead ==
    /\ pc = "loop"
    /\ IF ~LoopContinues(retryConfig, attempt)
         THEN /\ Finish([kind |-> "unavailable", code |-> 0, err |-> lastErr,
                         service |-> ServiceName])
              /\ UNCHANGED <<sel, waits>>
         ELSE IF attempt = 0
           THEN /\ pc' = "attempt"
                /\ UNCHANGED <<sel, waits, result>>
           ELSE /\ waits' = Append(waits, Backoff(engine, retryConfig, attempt))
                /\ pc' = "wait"
                /\ sel' = IF ctxDone THEN "ctx" ELSE "blocked"
                /\ UNCHANGED result
    /\ UNCHANGED <<engine, cfg, retryConfig, attempt, lastErr, ctxDone,
                   attempts, outcomes, waitCancelled>>
    /\ UNCHANGED notRetryVars

\* A wait that sleeps through the cancellation.
WakeOnCancelIgnored(s) == s

\* What a cancellation does to a goroutine blocked in the select: it is
\* woken with the ctx.Done() case.
WakeOnCancel(s) == IF s = "blocked" THEN "ctx" ELSE s

\* The caller cancels ctx, or its deadline fires.
Cancel ==
    /\ pc \in {"loop", "wait", "attempt"}
    /\ ~ctxDone
    /\ ctxDone' = TRUE
    /\ sel' = IF pc = "wait" THEN WakeOnCancel(sel) ELSE sel
    /\ waitCancelled' = IF pc = "wait" /\ sel = "blocked" THEN attempt ELSE waitCancelled
    /\ UNCHANGED <<engine, cfg, retryConfig, pc, attempt, lastErr, result,
                   attempts, waits, outcomes>>
    /\ UNCHANGED notRetryVars

\* time.After(delay) delivers: the blocked goroutine is woken with the timer case.
TimerFire ==
    /\ pc = "wait"
    /\ sel = "blocked"
    /\ sel' = "timer"
    /\ UNCHANGED <<engine, cfg, retryConfig, pc, attempt, lastErr, ctxDone, result,
                   attempts, waits, outcomes, waitCancelled>>
    /\ UNCHANGED notRetryVars

\* The select returns: case <-ctx.Done(): return ctx.Err(); case <-time.After(delay): go on.
SelectResume ==
    /\ pc = "wait"
    /\ sel \in {"ctx", "timer"}
    /\ sel' = "none"
    /\ IF sel = "ctx"
         THEN Finish([kind |-> "ctx", code |-> 0, err |-> CtxErr, service |-> ""])
         ELSE pc' = "attempt" /\ UNCHANGED result
    /\ UNCHANGED <<engine, cfg, retryConfig, attempt, lastErr, ctxDone,
                   attempts, waits, outcomes, waitCancelled>>
    /\ UNCHANGED notRetryVars

\* An HTTP attempt that forgets to record the error of a retryable status.
HTTPAttemptNoLastErr(o) ==
    IF o.ok /\ ~shouldRetry(retryConfig, o.code)
      THEN /\ Finish([kind |-> "resp", code |-> o.code, err |-> NilErr, service |-> ""])
           /\ UNCHANGED <<attempt, lastErr>>
      ELSE /\ lastErr' = IF o.ok THEN lastErr ELSE ErrOf("http", o)
           /\ attempt' = attempt + 1
           /\ pc' = "loop"
           /\ UNCHANGED result

\* httpclient.Client.Do, lines 368-400: one doRequest and its classification.
HTTPAttempt(o) ==
    IF o.ok /\ ~shouldRetry(retryConfig, o.code)
      THEN /\ Finish([kind |-> "resp", code |-> o.code, err |-> NilErr, service |-> ""])
           /\ UNCHANGED <<attempt, lastErr>>
      ELSE /\ lastErr' = ErrOf("http", o)
           /\ attempt' = attempt + 1
           /\ pc' = "loop"
           /\ UNCHANGED result

\* A gRPC attempt that retries every error, retryable or not.
GRPCAttemptRetryAll(o) ==
    IF o.ok
      THEN /\ Finish([kind |-> "ok", code |-> 0, err |-> NilErr, service |-> ""])
           /\ UNCHANGED <<attempt, lastErr>>
      ELSE /\ lastErr' = RPCErr(o.code)
           /\ attempt' = attempt + 1
           /\ pc' = "loop"
           /\ UNCHANGED result

\* createRetryInterceptor, lines 198-228: one invoker call and its classification.
GRPCAttempt(o) ==
    IF o.ok
      THEN /\ Finish([kind |-> "ok", code |-> 0, err |-> NilErr, service |-> ""])
           /\ UNCHANGED <<attempt, lastErr>>
      ELSE /\ lastErr' = RPCErr(o.code)
           /\ IF ~shouldRetry(retryConfig, o.code)
                THEN /\ Finish([kind |-> "err", code |-> o.code, err |-> RPCErr(o.code),
                                service |-> ""])
                     /\ UNCHANGED attempt
                ELSE /\ attempt' = attempt + 1
                     /\ pc' = "loop"
                     /\ UNCHANGED result

Attempt ==
    /\ pc = "attempt"
    /\ \E o \in Outcomes(engine) :
         /\ outcomes' = Append(outcomes, o)
         /\ IF engine = "http" THEN HTTPAttempt(o) ELSE GRPCAttempt(o)
    /\ attempts' = attempts + 1
    /\ UNCHANGED <<engine, cfg, retryConfig, ctxDone, sel, waits, waitCancelled>>
    /\ UNCHANGED notRetryVars

\* The caller has the result; the client is ready for its next call.
DoReturn ==
    /\ pc = "done"
    /\ pc' = "idle"
    /\ attempt' = 0
    /\ lastErr' = NilErr
    /\ ctxDone' = FALSE
    /\ sel' = "none"
    /\ result' = NoResult
    /\ attempts' = 0
    /\ waits' = << >>
    /\ outcomes' = << >>
    /\ waitCancelled' = 0
    /\ UNCHANGED <<engine, cfg, retryConfig>>
    /\ UNCHANGED notRetryVars

RetryNext ==
    \/ NewClient
    \/ DoBegin
    \/ LoopHead
    \/ Cancel
    \/ TimerFire
    \/ SelectResume
    \/ Attempt
    \/ DoReturn

----------------------------------------------------------------------------
(* The token validation path: RemoteServiceAuthMiddleware (HTTP) and        *)
(* UnaryAuthInterceptor / validateGRPCToken (gRPC), with the package-level  *)
(* token caches remoteTokenCache and tokenCache.                            *)
(* A scope string is the sequence of its characters: "*" is <<"*">>,        *)
(* "n:s" is <<"n", ":", "s">>, the empty string is << >>.                   *)

AuthMaxTime == 3
NumTokens == 2
NumReqs == 1
NumMw == 2
SweepThreshold == 1     \* stands for the 1000 of `len(c.cache) > 1000`
DefaultCacheTTL == 2    \* 5 * time.Minute, the clock ticking every 2.5 minutes
AuthorityLifetime == 1  \* ExpiresAt - now of a validation result

\* Token 0 is the empty string: what is left of the header "Bearer " once the
\* prefix is stripped (authHeader[7:], strings.TrimPrefix).
EmptyToken == 0
Tokens == 0..(NumTokens - 1)
Reqs == 1..NumReqs
Mws == 1..NumMw

Paths == {"skip", "skipx", "api"}

\* strings.HasPrefix on the paths above.
HasPrefix(p, q) == p = q \/ (p = "skipx" /\ q = "skip")

NoScope == << >>                      \* the empty string
ScopeSend == <<"n", ":", "s">>        \* "n:s", standing for "notifications:send"
ScopeLists == { << <<"n", ":", "*">> >>, << <<"n", ":", "r">> >> }   \* ["n:*"], ["n:r"]

AuthConfigs ==
    [Enabled : BOOLEAN, CacheTTL : {0, 1}, RequiredScope : {NoScope, ScopeSend},
     Skip : {{"skip"}}]

NoValidation ==
    [err |-> FALSE, Valid |-> FALSE, ClientID |-> 0, ServiceName |-> "", TenantID |-> "",
     Scopes |-> << >>, ExpiresAt |-> 0]

ValidatorError == [NoValidation EXCEPT !.err = TRUE]

\* What TokenValidator.ValidateToken can answer for token t at time n: an
\* error, a result with Valid = false, or a valid result.
ValidatorAnswers(t, n) ==
    {ValidatorError, NoValidation}
      \cup { [err |-> FALSE, Valid |-> TRUE, ClientID |-> t, ServiceName |-> "svc",
              TenantID |-> "tenant", Scopes |-> sc, ExpiresAt |-> n + AuthorityLifetime] :
             sc \in ScopeLists }

NoCached == [present |-> FALSE, result |-> NoValidation, expiresAt |-> 0]

cachedTokenValidation(res, exp) == [present |-> TRUE, result |-> res, expiresAt |-> exp]

NoIdentity == [clientId |-> 0, serviceName |-> "", scopes |-> << >>, tenantId |-> ""]

\* c.Locals(...) / addServiceInfoToContext: the fields attached for the handler.
addServiceInfoToContext(v) ==
    [clientId |-> v.ClientID, serviceName |-> v.ServiceName, scopes |-> v.Scopes,
     tenantId |-> v.TenantID]

\* The index of the first ":" of str, 0 if there is none.
IndexColon(str) ==
    IF \E i \in 1..Len(str) : str[i] = ":"
      THEN CHOOSE i \in 1..Len(str) : str[i] = ":" /\ \A j \in 1..(i - 1) : str[j] # ":"
      ELSE 0

\* strings.Split(str, ":"): the substrings between the colons, in order; a
\* string without a colon (the empty string too) gives one part.
RECURSIVE Split(_)
Split(str) ==
    IF IndexColon(str) = 0 THEN <<str>>
    ELSE <<SubSeq(str, 1, IndexColon(str) - 1)>>
           \o Split(SubSeq(str, IndexColon(str) + 1, Len(str)))

\* A scope check that takes everything before the first colon as the
\* resource, however many parts the required scope has.
hasScopeInListAnyParts(scopes, required) ==
    \E i \in 1..Len(scopes) :
        \/ scopes[i] = <<"*">>
        \/ scopes[i] = required
        \/ Len(Split(required)) >= 2 /\ scopes[i] = Split(required)[1] \o <<":", "*">>

\* hasScopeInList (HTTP): "*", an exact match, or parts[0]+":*" when the
\* required scope splits into exactly two parts.
hasScopeInList(scopes, required) ==
    \E i \in 1..Len(scopes) :
        \/ scopes[i] = <<"*">>
        \/ scopes[i] = required
        \/ Len(Split(required)) = 2 /\ scopes[i] = Split(required)[1] \o <<":", "*">>

\* HasScope (gRPC).
HasScope(scopes, required) ==
    \E i \in 1..Len(scopes) :
        \/ scopes[i] = <<"*">>
        \/ scopes[i] = required
        \/ Len(Split(required)) = 2 /\ scopes[i] = Split(required)[1] \o <<":", "*">>

\* A get that treats an entry as expired already at its expiry instant.
getEarlyExpiry(c, t, n) ==
    IF ~c[t].present \/ n >= c[t].expiresAt THEN NoCached ELSE c[t]

\* TokenValidationCache.get: nil unless the entry exists and now is not after
\* its expiresAt.  (The entry is returned; its result is what the caller sees.)
get(c, t, n) ==
    IF ~c[t].present \/ n > c[t].expiresAt THEN NoCached ELSE c[t]

\* A get that ignores the expiry.
grpcGetNoExpiry(c, t, n) ==
    IF ~c[t].present THEN NoCached ELSE c[t]

\* grpcTokenCache.get.
grpcGet(c, t, n) ==
    IF ~c[t].present \/ n > c[t].expiresAt THEN NoCached ELSE c[t]

\* TokenValidationCache.cleanup: delete every entry with now after expiresAt.
cacheCleanup(c, n) ==
    [t \in Tokens |-> IF c[t].present /\ n > c[t].expiresAt THEN NoCached ELSE c[t]]

\* grpcTokenCache.cleanup.
grpcCleanup(c, n) ==
    [t \in Tokens |-> IF c[t].present /\ n > c[t].expiresAt THEN NoCached ELSE c[t]]

CacheLen(c) == Cardinality({t \in Tokens : c[t].present})

\* A set that never sweeps.
setNoSweep(c, t, res, d, n) == [c EXCEPT ![t] = cachedTokenValidation(res, n + d)]

\* TokenValidationCache.set: store with now + ttl, then sweep if the table is
\* over the threshold.
set(c, t, res, d, n) ==
    LET c1 == [c EXCEPT ![t] = cachedTokenValidation(res, n + d)]
    IN  IF CacheLen(c1) > SweepThreshold THEN cacheCleanup(c1, n) ELSE c1

\* grpcTokenCache.set.
grpcSet(c, t, res, d, n) ==
    LET c1 == [c EXCEPT ![t] = cachedTokenValidation(res, n + d)]
    IN  IF CacheLen(c1) > SweepThreshold THEN grpcCleanup(c1, n) ELSE c1

CacheGet(v, c, t, n) == IF v = "http" THEN get(c, t, n) ELSE grpcGet(c, t, n)
CacheSet(v, c, t, res, d, n) ==
    IF v = "http" THEN set(c, t, res, d, n) ELSE grpcSet(c, t, res, d, n)

\* ttl := cfg.CacheTTL; if ttl == 0 { ttl = 5 * time.Minute }.
EffectiveTTL(cf) == IF cf.CacheTTL = 0 THEN DefaultCacheTTL ELSE cf.CacheTTL

\* The skip test: a path prefix (HTTP), the exact method (gRPC).
IsSkipped(v, cf, p) ==
    IF v = "http" THEN \E q \in cf.Skip : HasPrefix(p, q) ELSE p \in cf.Skip

\* The scope test of the two layers (HTTP: cfg.RequiredScope; gRPC:
\* cfg.ScopeMap[info.FullMethod], the same scope for every method here).
ScopeDenied(v, cf, scopes) ==
    /\ cf.RequiredScope # NoScope
    /\ IF v = "http" THEN ~hasScopeInList(scopes, cf.RequiredScope)
                     ELSE ~HasScope(scopes, cf.RequiredScope)

\* by: the middleware instances that stored the token since it was last
\* invalidated or cleared.
NoLastSet == [set |-> FALSE, result |-> NoValidation, at |-> 0, ttl |-> 0, by |-> {}]

NoObs == [seen |-> FALSE, time |-> 0, entry |-> NoCached, last |-> NoLastSet, got |-> NoCached]

NoOutcome == [status |-> "none", reason |-> "", attached |-> NoIdentity]

IdleReq ==
    [pc |-> "idle", m |-> 1, hdr |-> "absent", token |-> EmptyToken, path |-> "api",
     val |-> NoValidation, asked |-> 0, obs |-> NoObs, out |-> NoOutcome,
     vctx |-> "none", cancelled |-> FALSE, stale |-> FALSE]

\* stale: the token was invalidated, or the cache cleared, while this request's
\* validation was in flight.

\* The request is between its cache miss and its cache set.
InFlight(q) == q.pc \in {"validate", "store"}

\* The context handed to ValidateToken: context.Background() in the HTTP
\* middleware, the inbound call's ctx in the gRPC interceptor.
ValidatorCtx(v) == IF v = "http" THEN "background" ELSE "inbound"

\* ctx.Done() of the context handed to ValidateToken is closed: the
\* background context is never cancelled.
CtxDone(q) == q.vctx = "inbound" /\ q.cancelled

Headers == {"absent", "noprefix", "bearer"}

\* The instances built in one process: each has its own TokenValidator, and
\* the later ones differ from the first in their CacheTTL.
InstanceConfigs ==
    { f \in [Mws -> AuthConfigs] :
        \A m \in Mws \ {1} : /\ f[m].Enabled = f[1].Enabled
                              /\ f[m].RequiredScope = f[1].RequiredScope
                              /\ f[m].CacheTTL # f[1].CacheTTL }

AuthInit ==
    /\ mw \in {"http", "grpc"}
    /\ acfg \in InstanceConfigs
    /\ tcache = [t \in Tokens |-> NoCached]
    /\ lastSet = [t \in Tokens |-> NoLastSet]
    /\ reqs = [r \in Reqs |-> IdleReq]

AuthIdle ==
    /\ mw = "http"
    /\ acfg = [m \in Mws |-> [Enabled |-> FALSE, CacheTTL |-> 0, RequiredScope |-> NoScope,
                              Skip |-> {"skip"}]]
    /\ tcache = [t \in Tokens |-> NoCached]
    /\ lastSet = [t \in Tokens |-> NoLastSet]
    /\ reqs = [r \in Reqs |-> IdleReq]

Handler(id) == [status |-> "next", reason |-> "", attached |-> id]
Reject(st, why) == [status |-> st, reason |-> why, attached |-> NoIdentity]

\* The rejection of a missing or malformed authorization header.
HeaderRejection(v, h) ==
    IF v = "http" THEN Reject("unauthenticated", "Missing or invalid authorization header")
    ELSE IF h = "absent" THEN Reject("unauthenticated", "missing authorization header")
    ELSE Reject("unauthenticated", "invalid authorization format")

\* A decision that answers a failed scope check with the authentication
\* rejection.
DecideScopeUnauthenticated(v, cf, res) ==
    IF ScopeDenied(v, cf, res.Scopes)
      THEN Reject("unauthenticated", IF v = "http" THEN "Insufficient permissions"
                                                   ELSE "insufficient permissions")
      ELSE Handler(addServiceInfoToContext(res))

\* The decision once a validation result is in hand (from the cache or from
\* the validator): the scope check, then the handler with the fields attached.
Decide(v, cf, res) ==
    IF ScopeDenied(v, cf, res.Scopes)
      THEN Reject("forbidden", IF v = "http" THEN "Insufficient permissions"
                                             ELSE "insufficient permissions")
      ELSE Handler(addServiceInfoToContext(res))

\* A request that asks the validator even when the cache has the token.
ReqBeginValidateOnHit(r, m, h, t, p) ==
    /\ reqs[r].pc = "idle"
    /\ LET cf == acfg[m]
           base == [IdleReq EXCEPT !.m = m, !.hdr = h, !.path = p,
                                   !.token = IF h = "bearer" THEN t ELSE EmptyToken]
           e == CacheGet(mw, tcache, t, now)
           ob == [seen |-> TRUE, time |-> now, entry |-> tcache[t], last |-> lastSet[t],
                  got |-> e]
       IN  reqs' = [reqs EXCEPT ![r] =
             IF ~cf.Enabled \/ IsSkipped(mw, cf, p)
               THEN [base EXCEPT !.pc = "done", !.out = Handler(NoIdentity)]
             ELSE IF h # "bearer"
               THEN [base EXCEPT !.pc = "done", !.out = HeaderRejection(mw, h)]
             ELSE [base EXCEPT !.pc = "validate", !.obs = ob,
                               !.vctx = ValidatorCtx(mw)]]
    /\ UNCHANGED <<now, mw, acfg, tcache, lastSet>>
    /\ UNCHANGED notAuthVars

\* A request arrives: the enabled test, the skip test, the header test and
\* the cache lookup.  A hit is decided at once; a miss goes on to the remote
\* validator.
ReqBegin(r, m, h, t, p) ==
    /\ reqs[r].pc = "idle"
    /\ LET cf == acfg[m]
           base == [IdleReq EXCEPT !.m = m, !.hdr = h, !.path = p,
                                   !.token = IF h = "bearer" THEN t ELSE EmptyToken]
           e == CacheGet(mw, tcache, t, now)
           ob == [seen |-> TRUE, time |-> now, entry |-> tcache[t], last |-> lastSet[t],
                  got |-> e]
       IN  reqs' = [reqs EXCEPT ![r] =
             IF ~cf.Enabled \/ IsSkipped(mw, cf, p)
               THEN [base EXCEPT !.pc = "done", !.out = Handler(NoIdentity)]
             ELSE IF h # "bearer"
               THEN [base EXCEPT !.pc = "done", !.out = HeaderRejection(mw, h)]
             ELSE IF e.present
               THEN [base EXCEPT !.pc = "done", !.obs = ob,
                                 !.out = Decide(mw, cf, e.result)]
             ELSE [base EXCEPT !.pc = "validate", !.obs = ob,
                               !.vctx = ValidatorCtx(mw)]]
    /\ UNCHANGED <<now, mw, acfg, tcache, lastSet>>
    /\ UNCHANGED notAuthVars

\* A validation step that caches whatever the validator answered without an
\* error, Valid or not.
ReqValidateCacheInvalid(r) ==
    /\ reqs[r].pc = "validate"
    /\ \E a \in ValidatorAnswers(reqs[r].token, now) :
         reqs' = [reqs EXCEPT ![r] =
           IF a.err
             THEN [@ EXCEPT !.pc = "done", !.val = a, !.asked = @ + 1, !.stale = FALSE,
                            !.out = Reject("unauthenticated",
                                           IF mw = "http" THEN "Invalid service token"
                                                          ELSE "token validation failed")]
           ELSE [@ EXCEPT !.pc = "store", !.val = a, !.asked = @ + 1]]
    /\ UNCHANGED <<now, mw, acfg, tcache, lastSet>>
    /\ UNCHANGED notAuthVars

\* A validation step that answers a validator error and an invalid token
\* with one and the same rejection.
ReqValidateSameRejection(r) ==
    /\ reqs[r].pc = "validate"
    /\ \E a \in ValidatorAnswers(reqs[r].token, now) :
         reqs' = [reqs EXCEPT ![r] =
           IF a.err \/ ~a.Valid
             THEN [@ EXCEPT !.pc = "done", !.val = a, !.asked = @ + 1, !.stale = FALSE,
                            !.out = Reject("unauthenticated",
                                           IF mw = "http" THEN "Invalid service token"
                                                          ELSE "invalid token")]
           ELSE [@ EXCEPT !.pc = "store", !.val = a, !.asked = @ + 1]]
    /\ UNCHANGED <<now, mw, acfg, tcache, lastSet>>
    /\ UNCHANGED notAuthVars

\* cfg.TokenValidator.ValidateToken answers.  An error or Valid = false
\* rejects the request; a valid answer goes on to be cached.
ReqValidate(r) ==
    /\ reqs[r].pc = "validate"
    /\ \E a \in ValidatorAnswers(reqs[r].token, now) :
         reqs' = [reqs EXCEPT ![r] =
           IF a.err
             THEN [@ EXCEPT !.pc = "done", !.val = a, !.asked = @ + 1, !.stale = FALSE,
                            !.out = Reject("unauthenticated",
                                           IF mw = "http" THEN "Invalid service token"
                                                          ELSE "token validation failed")]
           ELSE IF ~a.Valid
             THEN [@ EXCEPT !.pc = "done", !.val = a, !.asked = @ + 1, !.stale = FALSE,
                            !.out = Reject("unauthenticated",
                                           IF mw = "http" THEN "Token is not valid"
                                                          ELSE "invalid token")]
           ELSE [@ EXCEPT !.pc = "store", !.val = a, !.asked = @ + 1]]
    /\ UNCHANGED <<now, mw, acfg, tcache, lastSet>>
    /\ UNCHANGED notAuthVars

\* The valid answer is cached with the effective TTL, then decided.
ReqStore(r) ==
    /\ reqs[r].pc = "store"
    /\ LET cf == acfg[reqs[r].m]
           t == reqs[r].token
           d == EffectiveTTL(cf)
       IN  /\ tcache' = CacheSet(mw, tcache, t, reqs[r].val, d, now)
           /\ lastSet' = [lastSet EXCEPT ![t] =
                            [set |-> TRUE, result |-> reqs[r].val, at |-> now, ttl |-> d,
                             by |-> lastSet[t].by \cup {reqs[r].m}]]
           /\ reqs' = [reqs EXCEPT ![r] =
                         [@ EXCEPT !.pc = "done", !.stale = FALSE,
                                   !.out = Decide(mw, cf, reqs[r].val)]]
    /\ UNCHANGED <<now, mw, acfg>>
    /\ UNCHANGED notAuthVars

\* The inbound call is cancelled, or its deadline fires, while the validator
\* is being asked.
ReqCancel(r) ==
    /\ reqs[r].pc = "validate"
    /\ ~reqs[r].cancelled
    /\ reqs' = [reqs EXCEPT ![r].cancelled = TRUE]
    /\ UNCHANGED <<now, mw, acfg, tcache, lastSet>>
    /\ UNCHANGED notAuthVars

\* The request is over.
ReqReturn(r) ==
    /\ reqs[r].pc = "done"
    /\ reqs' = [reqs EXCEPT ![r] = IdleReq]
    /\ UNCHANGED <<now, mw, acfg, tcache, lastSet>>
    /\ UNCHANGED notAuthVars

\* middleware.InvalidateToken(token) (the HTTP cache only).
InvalidateToken(t) ==
    /\ mw = "http"
    /\ \/ tcache[t].present
       \/ \E r \in Reqs : InFlight(reqs[r]) /\ reqs[r].token = t /\ ~reqs[r].stale
    /\ tcache' = [tcache EXCEPT ![t] = NoCached]
    /\ lastSet' = [lastSet EXCEPT ![t] = NoLastSet]
    /\ reqs' = [r \in Reqs |->
                 IF InFlight(reqs[r]) /\ reqs[r].token = t
                   THEN [reqs[r] EXCEPT !.stale = TRUE] ELSE reqs[r]]
    /\ UNCHANGED <<now, mw, acfg>>
    /\ UNCHANGED notAuthVars

\* ClearTokenCache / ClearGRPCTokenCache.
ClearTokenCache ==
    /\ \/ \E t \in Tokens : tcache[t].present
       \/ \E r \in Reqs : InFlight(reqs[r]) /\ ~reqs[r].stale
    /\ tcache' = [t \in Tokens |-> NoCached]
    /\ lastSet' = [t \in Tokens |-> NoLastSet]
    /\ reqs' = [r \in Reqs |->
                 IF InFlight(reqs[r]) THEN [reqs[r] EXCEPT !.stale = TRUE] ELSE reqs[r]]
    /\ UNCHANGED <<now, mw, acfg>>
    /\ UNCHANGED notAuthVars

AuthTick ==
    /\ now < AuthMaxTime
    /\ now' = now + 1
    /\ UNCHANGED authVars
    /\ UNCHANGED notAuthVars

AuthNext ==
    \/ \E r \in Reqs, m \in Mws, h \in Headers, t \in Tokens, p \in Paths :
         ReqBegin(r, m, h, t, p)
    \/ \E r \in Reqs : ReqValidate(r)
    \/ \E r \in Reqs : ReqStore(r)
    \/ \E r \in Reqs : ReqCancel(r)
    \/ \E r \in Reqs : ReqReturn(r)
    \/ \E t \in Tokens : InvalidateToken(t)
    \/ ClearTokenCache
    \/ AuthTick

----------------------------------------------------------------------------
(* The scope check on its own: a list of granted scopes and a required      *)
(* scope are drawn, hasScopeInList and HasScope are applied to them.        *)

MaxScopeLen == 3
MaxGranted == 2

ScopeChars == {"*", ":", "n", "s"}

\* The required scopes: every string of at most MaxScopeLen characters.
RequiredScopes == UNION { [1..k -> ScopeChars] : k \in 0..MaxScopeLen }

\* The scopes a validator grants: "*", "n:*", "n:s", "s:*", "n", ":*", "", "n:".
GrantedScopes ==
    { <<"*">>, <<"n", ":", "*">>, <<"n", ":", "s">>, <<"s", ":", "*">>, <<"n">>,
      <<":", "*">>, << >>, <<"n", ":">> }

GrantedLists == UNION { [1..k -> GrantedScopes] : k \in 0..MaxGranted }

NoAnswer == [asked |-> FALSE, http |-> FALSE, grpc |-> FALSE]

ScopeInit ==
    /\ sgranted \in GrantedLists
    /\ srequired \in RequiredScopes
    /\ sout = NoAnswer

ScopeIdle ==
    /\ sgranted = << >>
    /\ srequired = << >>
    /\ sout = NoAnswer

\* Both layers are asked the same question.
CheckScope ==
    /\ ~sout.asked
    /\ sout' = [asked |-> TRUE, http |-> hasScopeInList(sgranted, srequired),
                grpc |-> HasScope(sgranted, srequired)]
    /\ UNCHANGED <<sgranted, srequired>>
    /\ UNCHANGED notScopeVars

ScopeNext == CheckScope

----------------------------------------------------------------------------
(* cache.MemoryCache: the in-memory key/value store with per-item expiry    *)
(* and a background goroutine that removes expired items.                   *)

MemMaxTime == 2
MaxMemTTL == 1
MaxCount == 2

\* The keys callers use and the key prefixes an instance is configured with,
\* as character sequences.
UserKeys == { <<"a">>, <<"b">> }
KeyPrefixes == { << >>, <<"p">> }

\* The patterns handed to Keys.
Patterns == { <<"a">>, <<"b">> }

\* The ttl arguments of Set: negative, zero (use the default), positive.
TTLArgs == { -1, 0, MaxMemTTL }

\* The delta arguments of Increment.
Deltas == 1..MaxCount

\* Options as the caller passes them to NewMemoryCache.
MemOptions == [KeyPrefix : KeyPrefixes, DefaultTTL : {0, MaxMemTTL}]

\* c.buildKey
buildKey(opts, key) ==
    IF opts.KeyPrefix # << >> THEN opts.KeyPrefix \o <<":">> \o key ELSE key

FullKeys == { buildKey([KeyPrefix |-> p], k) : p \in KeyPrefixes, k \in UserKeys }

\* Stored bytes: either the JSON text of an integer or something else.
RawBytes == [num |-> FALSE, n |-> 0]

\* Serializer.Marshal of an int64.
Marshal(v) == [num |-> TRUE, n |-> v]

\* Serializer.Unmarshal into an int64 that holds old: bytes that are not a
\* number leave the destination as it was (the error is dropped).
Unmarshal(data, old) == IF data.num THEN data.n ELSE old

\* The values handed to Set.
SetValues == { RawBytes, Marshal(1) }

\* time.Time{}: the zero time, "no expiry".
ZeroTime == 0

IsZero(t) == t = ZeroTime

NoItem == [present |-> FALSE, value |-> RawBytes, expiresAt |-> ZeroTime]

memoryItem(value, exp) == [present |-> TRUE, value |-> value, expiresAt |-> exp]

NoRet == [op |-> "none", key |-> << >>, err |-> "nil", value |-> RawBytes, n |-> 0,
          keys |-> {}]

MemInit ==
    /\ items = [k \in FullKeys |-> NoItem]
    /\ options \in MemOptions
    /\ stopChan = 0
    /\ mpanic = FALSE
    /\ mtick = FALSE
    /\ mloop = "select"
    /\ mret = NoRet

MemIdle ==
    /\ items = [k \in FullKeys |-> NoItem]
    /\ options = [KeyPrefix |-> << >>, DefaultTTL |-> 0]
    /\ stopChan = 0
    /\ mpanic = FALSE
    /\ mtick = FALSE
    /\ mloop = "exited"
    /\ mret = NoRet

\* Get's answer for a full key at time n.
getResult(its, fk, n) ==
    IF ~its[fk].present THEN [err |-> "ErrKeyNotFound", value |-> RawBytes]
    ELSE IF ~IsZero(its[fk].expiresAt) /\ n > its[fk].expiresAt
         THEN [err |-> "ErrKeyExpired", value |-> RawBytes]
         ELSE [err |-> "nil", value |-> its[fk].value]

MemoryCacheGet(k) ==
    /\ ~mpanic
    /\ LET g == getResult(items, buildKey(options, k), now)
       IN  mret' = [NoRet EXCEPT !.op = "Get", !.key = k, !.err = g.err, !.value = g.value]
    /\ UNCHANGED <<now, items, options, stopChan, mpanic, mtick, mloop>>
    /\ UNCHANGED notMemVars

MemoryCacheSet(k, v, d) ==
    /\ ~mpanic
    /\ LET t == IF d = 0 THEN options.DefaultTTL ELSE d
           exp == IF t > 0 THEN now + t ELSE ZeroTime
       IN  items' = [items EXCEPT ![buildKey(options, k)] = memoryItem(v, exp)]
    /\ mret' = [NoRet EXCEPT !.op = "Set", !.key = k, !.value = v]
    /\ UNCHANGED <<now, options, stopChan, mpanic, mtick, mloop>>
    /\ UNCHANGED notMemVars

MemoryCacheDelete(k) ==
    /\ ~mpanic
    /\ items' = [items EXCEPT ![buildKey(options, k)] = NoItem]
    /\ mret' = [NoRet EXCEPT !.op = "Delete", !.key = k]
    /\ UNCHANGED <<now, options, stopChan, mpanic, mtick, mloop>>
    /\ UNCHANGED notMemVars

\* The value Increment computes and returns for a full key at time n.
incrementValue(its, fk, delta, n) ==
    LET item == its[fk]
        value == IF item.present /\ (IsZero(item.expiresAt) \/ n < item.expiresAt)
                 THEN Unmarshal(item.value, 0)
                 ELSE 0
    IN  value + delta

\* The item Increment stores.
incrementItem(its, fk, delta, n) ==
    LET item == its[fk]
    IN  memoryItem(Marshal(incrementValue(its, fk, delta, n)),
                   IF item.present /\ ~IsZero(item.expiresAt)
                   THEN item.expiresAt ELSE ZeroTime)

MemoryCacheIncrement(k, delta) ==
    /\ ~mpanic
    /\ LET fullKey == buildKey(options, k)
       IN  /\ incrementValue(items, fullKey, delta, now) <= MaxCount
           /\ items' = [items EXCEPT ![fullKey] = incrementItem(items, fullKey, delta, now)]
           /\ mret' = [NoRet EXCEPT !.op = "Increment", !.key = k,
                                    !.n = incrementValue(items, fullKey, delta, now)]
    /\ UNCHANGED <<now, options, stopChan, mpanic, mtick, mloop>>
    /\ UNCHANGED notMemVars

\* Keys computes the prefix and then appends every key of the map.
MemoryCacheKeys(pattern) ==
    /\ ~mpanic
    /\ mret' = [NoRet EXCEPT !.op = "Keys", !.key = pattern,
                             !.keys = {fk \in FullKeys : items[fk].present}]
    /\ UNCHANGED <<now, items, options, stopChan, mpanic, mtick, mloop>>
    /\ UNCHANGED notMemVars

MemoryCacheClear ==
    /\ ~mpanic
    /\ \E fk \in FullKeys : items[fk].present
    /\ items' = [fk \in FullKeys |-> NoItem]
    /\ mret' = [NoRet EXCEPT !.op = "Clear"]
    /\ UNCHANGED <<now, options, stopChan, mpanic, mtick, mloop>>
    /\ UNCHANGED notMemVars

\* Close closes the stop channel, whatever its state: closing a closed
\* channel panics.
MemoryCacheClose ==
    /\ ~mpanic
    /\ stopChan' = stopChan + 1
    /\ mpanic' = (stopChan >= 1)
    /\ mret' = [NoRet EXCEPT !.op = "Close"]
    /\ UNCHANGED <<now, items, options, mtick, mloop>>
    /\ UNCHANGED notMemVars

\* c.removeExpired at time n.
removeExpired(its, n) ==
    [fk \in FullKeys |->
        IF its[fk].present /\ ~IsZero(its[fk].expiresAt) /\ n > its[fk].expiresAt
        THEN NoItem ELSE its[fk]]

\* The minute ticker of the cleanup goroutine delivers a tick.
MemTickerFire ==
    /\ ~mpanic
    /\ mloop = "select"
    /\ ~mtick
    /\ mtick' = TRUE
    /\ UNCHANGED <<now, items, options, stopChan, mpanic, mloop, mret>>
    /\ UNCHANGED notMemVars

\* cleanup's select takes the tick.
MemCleanupTick ==
    /\ ~mpanic
    /\ mloop = "select"
    /\ mtick
    /\ mtick' = FALSE
    /\ items' = removeExpired(items, now)
    /\ UNCHANGED <<now, options, stopChan, mpanic, mloop, mret>>
    /\ UNCHANGED notMemVars

\* cleanup's select takes the closed stop channel; the deferred ticker.Stop
\* runs.
MemCleanupExit ==
    /\ ~mpanic
    /\ mloop = "select"
    /\ stopChan >= 1
    /\ mloop' = "exited"
    /\ mtick' = FALSE
    /\ UNCHANGED <<now, items, options, stopChan, mpanic, mret>>
    /\ UNCHANGED notMemVars

MemTick ==
    /\ now < MemMaxTime
    /\ now' = now + 1
    /\ UNCHANGED memVars
    /\ UNCHANGED notMemVars

MemNext ==
    \/ \E k \in UserKeys : MemoryCacheGet(k)
    \/ \E k \in UserKeys, v \in SetValues, d \in TTLArgs : MemoryCacheSet(k, v, d)
    \/ \E k \in UserKeys : MemoryCacheDelete(k)
    \/ \E k \in UserKeys, d \in Deltas : MemoryCacheIncrement(k, d)
    \/ \E p \in Patterns : MemoryCacheKeys(p)
    \/ MemoryCacheClear
    \/ MemoryCacheClose
    \/ MemTickerFire
    \/ MemCleanupTick
    \/ MemCleanupExit
    \/ MemTick

----------------------------------------------------------------------------
(* shutdown.Manager: hooks, the triggers of shutdown() and the done channel *)

MaxHooks == 2
NumRunners == 2

HookNames == 1..MaxHooks
Runners == 1..NumRunners

IdleRun == [pc |-> "idle", hooks |-> << >>, i |-> 0, ran |-> << >>,
            erred |-> FALSE]

ShutInit ==
    /\ hooks = << >>
    /\ started = FALSE
    /\ sigChan = "none"
    /\ doneClosed = 0
    /\ isHealthy = TRUE
    /\ spanic = FALSE
    /\ runs = [r \in Runners |-> IdleRun]
    /\ hookRuns = [h \in HookNames |-> 0]
    /\ waiter = "idle"

ShutIdle == ShutInit

\* AddHook appends under the lock, at any time. Hooks are named by their
\* registration number.
AddHook(h) ==
    /\ ~spanic
    /\ Len(hooks) < MaxHooks
    /\ h = Len(hooks) + 1
    /\ hooks' = Append(hooks, h)
    /\ UNCHANGED <<started, sigChan, doneClosed, isHealthy, spanic, runs,
                   hookRuns, waiter>>
    /\ UNCHANGED notShutVars

\* Start: the first call arms the signal goroutine and returns the trigger,
\* a later call returns a function that does nothing.
Start ==
    /\ ~spanic
    /\ started' = TRUE
    /\ sigChan' = IF started THEN sigChan ELSE "waiting"
    /\ UNCHANGED <<hooks, doneClosed, isHealthy, spanic, runs, hookRuns, waiter>>
    /\ UNCHANGED notShutVars

\* The goroutine of Start receives a signal and calls m.shutdown().
SignalShutdown(r) ==
    /\ ~spanic
    /\ sigChan = "waiting"
    /\ runs[r].pc = "idle"
    /\ sigChan' = "received"
    /\ runs' = [runs EXCEPT ![r] = [IdleRun EXCEPT !.pc = "begin"]]
    /\ UNCHANGED <<hooks, started, doneClosed, isHealthy, spanic, hookRuns, waiter>>
    /\ UNCHANGED notShutVars

\* The function returned by the first Start is called: it calls m.shutdown().
TriggerShutdown(r) ==
    /\ ~spanic
    /\ started
    /\ runs[r].pc = "idle"
    /\ runs' = [runs EXCEPT ![r] = [IdleRun EXCEPT !.pc = "begin"]]
    /\ UNCHANGED <<hooks, started, sigChan, doneClosed, isHealthy, spanic,
                   hookRuns, waiter>>
    /\ UNCHANGED notShutVars

\* GracefulShutdown: unhealthy first, the pre-shutdown delay, then m.shutdown().
GracefulShutdown(r) ==
    /\ ~spanic
    /\ runs[r].pc = "idle"
    /\ isHealthy' = FALSE
    /\ runs' = [runs EXCEPT ![r] = [IdleRun EXCEPT !.pc = "begin"]]
    /\ UNCHANGED <<hooks, started, sigChan, doneClosed, spanic, hookRuns, waiter>>
    /\ UNCHANGED notShutVars

\* shutdown(): the hooks are copied under the read lock; the loop starts at
\* the last one.
shutdownCopy(r) ==
    /\ ~spanic
    /\ runs[r].pc = "begin"
    /\ runs' = [runs EXCEPT ![r] = [@ EXCEPT !.pc = "loop", !.hooks = hooks,
                                             !.i = Len(hooks)]]
    /\ UNCHANGED <<hooks, started, sigChan, doneClosed, isHealthy, spanic,
                   hookRuns, waiter>>
    /\ UNCHANGED notShutVars

\* The hook the loop calls: hooks[i], i counting down.
HookAt(run) == run.hooks[run.i]

\* hook.fn(ctx) is called.
HookCall(r) ==
    /\ ~spanic
    /\ runs[r].pc = "loop"
    /\ runs[r].i >= 1
    /\ runs' = [runs EXCEPT ![r] = [@ EXCEPT !.pc = "inhook",
                                             !.ran = Append(@, HookAt(runs[r]))]]
    /\ hookRuns' = [hookRuns EXCEPT ![HookAt(runs[r])] = @ + 1]
    /\ UNCHANGED <<hooks, started, sigChan, doneClosed, isHealthy, spanic, waiter>>
    /\ UNCHANGED notShutVars

\* A loop that gives up at the first hook that returns an error.
HookReturnStopAtError(r, err) ==
    /\ ~spanic
    /\ runs[r].pc = "inhook"
    /\ runs' = [runs EXCEPT ![r] =
                  [@ EXCEPT !.pc = "loop",
                            !.i = IF err THEN 0 ELSE @ - 1,
                            !.erred = @ \/ err]]
    /\ UNCHANGED <<hooks, started, sigChan, doneClosed, isHealthy, spanic,
                   hookRuns, waiter>>
    /\ UNCHANGED notShutVars

\* hook.fn(ctx) returns, with an error or without: the loop goes on either way.
HookReturn(r, err) ==
    /\ ~spanic
    /\ runs[r].pc = "inhook"
    /\ runs' = [runs EXCEPT ![r] =
                  [@ EXCEPT !.pc = "loop",
                            !.i = @ - 1,
                            !.erred = @ \/ err]]
    /\ UNCHANGED <<hooks, started, sigChan, doneClosed, isHealthy, spanic,
                   hookRuns, waiter>>
    /\ UNCHANGED notShutVars

\* After the loop: close(m.done). Closing a closed channel panics.
CloseDone(r) ==
    /\ ~spanic
    /\ runs[r].pc = "loop"
    /\ runs[r].i = 0
    /\ doneClosed' = doneClosed + 1
    /\ spanic' = (doneClosed >= 1)
    /\ runs' = [runs EXCEPT ![r].pc = "returned"]
    /\ UNCHANGED <<hooks, started, sigChan, isHealthy, hookRuns, waiter>>
    /\ UNCHANGED notShutVars

\* Wait: <-m.done
WaitCall ==
    /\ ~spanic
    /\ waiter = "idle"
    /\ waiter' = "blocked"
    /\ UNCHANGED <<hooks, started, sigChan, doneClosed, isHealthy, spanic, runs,
                   hookRuns>>
    /\ UNCHANGED notShutVars

WaitReturn ==
    /\ ~spanic
    /\ waiter = "blocked"
    /\ doneClosed >= 1
    /\ waiter' = "released"
    /\ UNCHANGED <<hooks, started, sigChan, doneClosed, isHealthy, spanic, runs,
                   hookRuns>>
    /\ UNCHANGED notShutVars

ShutNext ==
    \/ \E h \in HookNames : AddHook(h)
    \/ Start
    \/ \E r \in Runners : SignalShutdown(r)
    \/ \E r \in Runners : TriggerShutdown(r)
    \/ \E r \in Runners : GracefulShutdown(r)
    \/ \E r \in Runners : shutdownCopy(r)
    \/ \E r \in Runners : HookCall(r)
    \/ \E r \in Runners, err \in BOOLEAN : HookReturn(r, err)
    \/ \E r \in Runners : CloseDone(r)
    \/ WaitCall
    \/ WaitReturn

----------------------------------------------------------------------------
(* Claims about the rate limiter (SpecLimiter) *)

\* C1: concurrent first-time GetLimiter(k) calls all receive the same bucket,
\* and that bucket is the one stored for k: any two completed GetLimiter calls
\* on a key whose entry was neither evicted nor replaced by a direct AddIP
\* since they started hold the same limiter, which is the stored one.
C1_OneBucketPerKey ==
    \A c1, c2 \in Callers :
        ( /\ lpc[c1] = "done" /\ lpc[c2] = "done"
          /\ lop[c1] = "GetLimiter" /\ lop[c2] = "GetLimiter"
          /\ lkey[c1] = lkey[c2]
          /\ lgen[c1] = epoch[lkey[c1]] /\ lgen[c2] = epoch[lkey[c1]] )
        => /\ lret[c1] = lret[c2]
           /\ ips[lkey[c1]].present
           /\ ips[lkey[c1]].limiter = lret[c1]

\* C22: the bucket stored for a key changes only if the key was removed by a
\* cleanup pass or by Clear in between: no step replaces the bucket of a key
\* that has one before and after the step.
C22_Step ==
    \A k \in Keys :
        (ips[k].present /\ ips'[k].present) => ips'[k].limiter = ips[k].limiter

C22_BucketKeptUntilEvicted == [][C22_Step]_vars

\* The step is a cleanup pass of the sweep loop.
IsCleanupPass == tickPending /\ ~tickPending' /\ sweepPc' = "select"

\* The step completes a GetLimiter or AddIP call of caller c.
CompletesAccess(c) ==
    lpc[c] # "done" /\ lpc'[c] = "done" /\ lop'[c] \in {"GetLimiter", "AddIP"}

\* C16: after a cleanup pass at time T a key is present if and only if it was
\* present before the pass and its lastSeen is not older than T - ttl, with
\* its entry untouched, and Len() is the number of keys that remain; lastSeen
\* is the time of the most recent GetLimiter or AddIP on the key: every such
\* call leaves the key present with lastSeen = now, and nothing else sets it.
C16_Step ==
    /\ IsCleanupPass
         => /\ \A k \in Keys :
                   /\ ips'[k].present <=> (ips[k].present /\ ips[k].lastSeen >= now - ttl)
                   /\ ips'[k].present => ips'[k] = ips[k]
            /\ LimLen(ips') = Cardinality({k \in Keys : ips[k].present
                                                         /\ ips[k].lastSeen >= now - ttl})
    /\ \A c \in Callers :
         CompletesAccess(c) => /\ ips'[lkey'[c]].present
                               /\ ips'[lkey'[c]].lastSeen = now
                               /\ ips'[lkey'[c]].limiter = lret'[c]
    /\ \A k \in Keys :
         (ips'[k].present /\ ips'[k] # ips[k])
           => \E c \in Callers : CompletesAccess(c) /\ lkey'[c] = k

C16_CleanupIff == [][C16_Step]_vars

\* A cleanup pass removed one key and kept the other, which is still there.
C16_Witness ==
    /\ lastPass.ran
    /\ lastPass.gone # {} /\ lastPass.kept # {}
    /\ \A k \in lastPass.gone : ~ips[k].present
    /\ \A k \in lastPass.kept : ips[k].present /\ ips[k].lastSeen >= now - ttl
    /\ LimLen(ips) = 1

\* C17: however many Stop calls are made, alone or alongside GetLimiter and
\* the sweep, stopClean is closed at most once (exactly once when a Stop has
\* run), a Stop call is never blocked, it returns at once, and it leaves the
\* table of limiters as it was.
C17_Step ==
    \A c \in Callers :
        (lop[c] # "Stop" /\ lop'[c] = "Stop")
          => /\ ips' = ips
             /\ lpc'[c] = "done"
             /\ stopped' /\ stopClosed' = 1

C17_StopIdempotent ==
    /\ [](/\ stopClosed <= 1
          /\ stopped <=> stopClosed = 1
          /\ \A c \in Callers : lpc[c] = "idle" => ENABLED Stop(c))
    /\ [][C17_Step]_vars

\* Two Stop calls have returned, the table still holds a limiter and the
\* sweep loop has not yet taken the stop signal.
C17_Witness ==
    /\ \A c \in Callers : lop[c] = "Stop" /\ lpc[c] = "done"
    /\ stopClosed = 1
    /\ \E k \in Keys : ips[k].present
    /\ sweepPc = "select"

\* C18 (its safety half): once Stop has returned, the sweep loop performs no
\* further cleanup pass.
C18_NoPassAfterStop == [][stopped => ~IsCleanupPass]_vars

----------------------------------------------------------------------------
(* Claims about the retry engine (SpecRetry) *)

Min(a, b) == IF a <= b THEN a ELSE b

RECURSIVE IntPow(_, _)
IntPow(b, e) == IF e = 0 THEN 1 ELSE b * IntPow(b, e - 1)

\* initialDelay * factor^(n-1) clamped to maxDelay, in whole nanoseconds.
ExpectedDelay(c, n) ==
    Min((c.InitialDelay * IntPow(c.BackoffNum, n - 1)) \div IntPow(c.BackoffDen, n - 1),
        c.MaxDelay)

AllRetryable(os) == \A i \in 1..Len(os) : IsRetryable(engine, retryConfig, os[i])

\* C2: with maxRetries = k in effect, an attempt operation that fails
\* retryably every time and a context that is never cancelled, a call makes
\* exactly k+1 attempts and returns the ServiceUnavailableError; no call ever
\* makes more than k+1 attempts.
C2_ExactlyKPlusOneAttempts ==
    /\ pc # "new" => attempts <= retryConfig.MaxRetries + 1
    /\ (pc = "done" /\ ~ctxDone /\ AllRetryable(outcomes))
         => /\ attempts = retryConfig.MaxRetries + 1
            /\ result.kind = "unavailable"

C2_Witness ==
    /\ pc = "done" /\ ~ctxDone /\ AllRetryable(outcomes)
    /\ engine = "http"
    /\ retryConfig.MaxRetries = 2
    /\ attempts = 3
    /\ result.kind = "unavailable"

\* C3: once the context is cancelled while the engine waits before the
\* attempt with loop index n, that attempt is never started (the number of
\* attempts stays n, the call is waiting or has returned) and the call
\* returns ctx.Err(), not the ServiceUnavailableError.
C3_CancelDuringWait ==
    waitCancelled # 0
      => /\ attempts = waitCancelled
         /\ pc \in {"wait", "done"}
         /\ pc = "done" => result.kind = "ctx" /\ result.err = CtxErr

C3_Witness ==
    /\ waitCancelled = 2
    /\ engine = "grpc"
    /\ pc = "done"
    /\ result.kind = "ctx"

\* C4 as claimed: a first attempt that fails non-retryably ends the call after
\* exactly one attempt, and the call returns that failure as an error.
C4_Original_ReturnsError ==
    (pc = "done" /\ Len(outcomes) >= 1
       /\ IsTerminalFailure(engine, retryConfig, outcomes[1]))
      => /\ attempts = 1
         /\ result.kind = "err"
         /\ result.err = ErrOf(engine, outcomes[1])

\* C4 as amended: a first attempt that fails non-retryably ends the call after
\* exactly one attempt and never yields the ServiceUnavailableError; the gRPC
\* interceptor returns the original error, the HTTP client returns the
\* response carrying that status together with a nil error.
C4_NonRetryableShortCircuit ==
    (pc = "done" /\ Len(outcomes) >= 1
       /\ IsTerminalFailure(engine, retryConfig, outcomes[1]))
      => /\ attempts = 1
         /\ engine = "grpc" => /\ result.kind = "err"
                               /\ result.err = RPCErr(outcomes[1].code)
         /\ engine = "http" => /\ result.kind = "resp"
                               /\ result.code = outcomes[1].code
                               /\ result.err = NilErr

C4_Witness ==
    /\ pc = "done"
    /\ engine = "http"
    /\ outcomes = <<[ok |-> TRUE, code |-> 404]>>
    /\ 404 \notin retryConfig.Retryable
    /\ attempts = 1
    /\ result.kind = "resp"
    /\ result.code = 404

\* C5: a ServiceUnavailableError is returned only after all maxRetries+1
\* attempts were made and each ended in a retryable failure; it carries the
\* configured service name and wraps the non-nil error of the last attempt.
C5_UnavailableOnlyAfterBudget ==
    result.kind = "unavailable"
      => /\ attempts = retryConfig.MaxRetries + 1
         /\ Len(outcomes) = attempts
         /\ AllRetryable(outcomes)
         /\ result.service = ServiceName
         /\ result.err # NilErr
         /\ result.err = ErrOf(engine, outcomes[Len(outcomes)])

C5_Witness ==
    /\ result.kind = "unavailable"
    /\ engine = "http"
    /\ Len(outcomes) = 3
    /\ outcomes[2] = [ok |-> FALSE, code |-> 0]
    /\ outcomes[3] = [ok |-> TRUE, code |-> 503]
    /\ result.err = StatusErr(503)

\* The outcomes are m retryable failures followed by one success.
FailuresThenSuccess(os) ==
    /\ Len(os) >= 1
    /\ \A i \in 1..(Len(os) - 1) : IsRetryable(engine, retryConfig, os[i])
    /\ IsSuccess(engine, retryConfig, os[Len(os)])

\* C6: m retryable failures followed by a success: the call makes exactly m+1
\* attempts, has waited delay(1), ..., delay(m) in that order, and returns the
\* success with no error; an attempt starts only after all earlier attempts
\* have completed and their waits have elapsed.
C6_SuccessAfterRetries ==
    /\ pc = "attempt" => /\ Len(outcomes) = attempt
                         /\ Len(waits) = attempt
                         /\ attempts = attempt
    /\ (pc = "done" /\ FailuresThenSuccess(outcomes))
         => /\ attempts = Len(outcomes)
            /\ waits = [i \in 1..(Len(outcomes) - 1) |-> ExpectedDelay(retryConfig, i)]
            /\ result.kind = IF engine = "http" THEN "resp" ELSE "ok"
            /\ result.err = NilErr
            /\ engine = "http" => result.code = outcomes[Len(outcomes)].code

C6_Witness ==
    /\ pc = "done"
    /\ FailuresThenSuccess(outcomes)
    /\ Len(outcomes) = 3
    /\ retryConfig.BackoffNum = 3
    /\ waits = <<1, 3>>
    /\ result.kind = "resp"

\* C7: a client built by NewClient from a supplied policy with maxRetries = 0
\* uses that policy as supplied, so every call makes exactly one attempt.
C7_ZeroRetriesHonoured ==
    (pc # "new" /\ cfg.MaxRetries = 0)
      => /\ retryConfig = cfg
         /\ attempts <= 1

----------------------------------------------------------------------------
(* Claims about the backoff function (SpecBackoff) *)

ValidPolicy(c) == c.InitialDelay <= c.MaxDelay /\ c.BackoffNum > c.BackoffDen

\* C8 as claimed: calculateBackoff(n) equals min(initialDelay *
\* backoffFactor^(n-1), maxDelay) exactly (here with both sides multiplied by
\* the denominator of the power), and delay(1) = initialDelay, delay(n) <=
\* delay(n+1), delay(n) <= maxDelay, HTTP and gRPC agree.
C8_Original_ExactFormula ==
    (bn >= 1 /\ ValidPolicy(bpolicy))
      => /\ bout.grpc * IntPow(bpolicy.BackoffDen, bn - 1)
              = Min(bpolicy.InitialDelay * IntPow(bpolicy.BackoffNum, bn - 1),
                    bpolicy.MaxDelay * IntPow(bpolicy.BackoffDen, bn - 1))
         /\ bn = 1 => bout.grpc = bpolicy.InitialDelay
         /\ bout.grpc <= bout.grpcNext
         /\ bout.grpc <= bpolicy.MaxDelay
         /\ bout.http = bout.grpc

\* C8 as amended: calculateBackoff(n) is min(initialDelay *
\* backoffFactor^(n-1), maxDelay) truncated toward zero to a whole number of
\* nanoseconds; delay(1) = initialDelay, delay(n) <= delay(n+1), delay(n) <=
\* maxDelay, and the HTTP and gRPC implementations agree.
C8_BackoffTruncatedFormula ==
    (bn >= 1 /\ ValidPolicy(bpolicy))
      => /\ bout.grpc = ExpectedDelay(bpolicy, bn)
         /\ bn = 1 => bout.grpc = bpolicy.InitialDelay
         /\ bout.grpc <= bout.grpcNext
         /\ bout.grpc <= bpolicy.MaxDelay
         /\ bout.http = bout.grpc

C8_Witness ==
    /\ bn = 2
    /\ bpolicy.InitialDelay = 1 /\ bpolicy.MaxDelay = 4
    /\ bpolicy.BackoffNum = 3 /\ bpolicy.BackoffDen = 2
    /\ bout.grpc = 1
    /\ bout.grpcNext = 2

----------------------------------------------------------------------------
(* Claims about the token validation path (SpecAuth) *)

\* C9: after set(t, r, ttl) at time T0 with no later set, invalidation or
\* clear of t, a get(t) at time T <= T0 + ttl returns r and a get(t) at a
\* time T > T0 + ttl returns absent, sweeps or no sweeps.
C9_CacheTTL ==
    \A r \in Reqs :
        LET ob == reqs[r].obs IN
        (ob.seen /\ ob.last.set)
          => /\ ob.time <= ob.last.at + ob.last.ttl
                  => ob.got.present /\ ob.got.result = ob.last.result
             /\ ob.time > ob.last.at + ob.last.ttl => ~ob.got.present

\* A get after the TTL has elapsed, the entry still in the table, found absent.
C9_Witness ==
    \E r \in Reqs :
        LET ob == reqs[r].obs IN
        /\ ob.seen /\ ob.last.set
        /\ ob.time > ob.last.at + ob.last.ttl
        /\ ob.entry.present
        /\ ~ob.got.present
        /\ mw = "http"

\* The granted scopes satisfy the required scope: some granted scope is "*",
\* or is the required scope, or the required scope is "resource:action" (it
\* has exactly one colon) and the granted scope is "resource:*".
ScopeSatisfied(scopes, required) ==
    \E i \in 1..Len(scopes) :
        \/ scopes[i] = <<"*">>
        \/ scopes[i] = required
        \/ \E c \in 1..Len(required) :
              /\ required[c] = ":"
              /\ \A d \in 1..Len(required) : required[d] = ":" => d = c
              /\ Len(scopes[i]) = c + 1
              /\ \A d \in 1..c : scopes[i][d] = required[d]
              /\ scopes[i][c + 1] = "*"

\* C10: with auth enabled and the route not skipped, the handler runs, with
\* the caller's fields attached, only if the request carried a bearer token
\* that had an unexpired cache entry or was accepted by the validator during
\* this request, and the required scope (if any) is satisfied by the
\* validated scopes.
C10_HandlerOnlyIfValidated ==
    \A r \in Reqs :
        LET q == reqs[r]
            cf == acfg[q.m]
            fromCache == /\ q.obs.seen /\ q.obs.entry.present
                         /\ q.obs.time <= q.obs.entry.expiresAt
            fromRemote == q.asked = 1 /\ ~q.val.err /\ q.val.Valid
            res == IF fromCache THEN q.obs.entry.result ELSE q.val
        IN  (q.pc = "done" /\ q.out.status = "next" /\ cf.Enabled
               /\ ~IsSkipped(mw, cf, q.path))
              => /\ q.hdr = "bearer"
                 /\ fromCache \/ fromRemote
                 /\ cf.RequiredScope = NoScope
                      \/ ScopeSatisfied(res.Scopes, cf.RequiredScope)
                 /\ q.out.attached = [clientId |-> res.ClientID,
                                      serviceName |-> res.ServiceName,
                                      scopes |-> res.Scopes, tenantId |-> res.TenantID]

\* A request admitted from an unexpired cache entry under a required scope.
C10_Witness ==
    \E r \in Reqs :
        LET q == reqs[r] IN
        /\ q.pc = "done" /\ q.out.status = "next"
        /\ acfg[q.m].Enabled /\ acfg[q.m].RequiredScope = ScopeSend
        /\ q.path = "api"
        /\ q.obs.got.present /\ q.asked = 0
        /\ q.out.attached.clientId = q.token
        /\ q.out.attached.scopes = << <<"n", ":", "*">> >>
        /\ mw = "grpc"

\* C11: every entry of the token cache holds a result with Valid = true that
\* the validator returned without error, and a request that ends with the
\* authentication rejection (validator error, Valid = false, missing or
\* malformed header) leaves the cache as it was.
C11_Step ==
    \A r \in Reqs :
        ( /\ reqs[r].pc # "done" /\ reqs'[r].pc = "done"
          /\ reqs'[r].out.status = "unauthenticated" )
        => tcache' = tcache

C11_OnlyValidCached ==
    /\ [](\A t \in Tokens : tcache[t].present
                              => tcache[t].result.Valid /\ ~tcache[t].result.err)
    /\ [][C11_Step]_vars

\* A request rejected because the validator answered Valid = false, while the
\* cache holds the entry of another token.
C11_Witness ==
    \E r \in Reqs :
        /\ reqs[r].pc = "done" /\ reqs[r].asked = 1
        /\ ~reqs[r].val.err /\ ~reqs[r].val.Valid
        /\ reqs[r].out.status = "unauthenticated"
        /\ ~tcache[reqs[r].token].present
        /\ \E t \in Tokens : tcache[t].present

\* C12: with auth enabled and the route not skipped, a request whose
\* authorization header is absent, lacks the "Bearer " prefix, or carries the
\* prefix with no token after it is rejected at once as unauthenticated: the
\* validator is never asked and the request never goes on to write the cache.
C12_NoTokenNoValidatorCall ==
    \A r \in Reqs :
        LET q == reqs[r]
            cf == acfg[q.m]
        IN  ( /\ q.pc # "idle" /\ cf.Enabled /\ ~IsSkipped(mw, cf, q.path)
              /\ q.hdr # "bearer" \/ q.token = EmptyToken )
            => /\ q.pc = "done"
               /\ q.out.status = "unauthenticated"
               /\ q.asked = 0

\* C14: with auth enabled and the route not skipped, a finished request is
\* rejected with the permission-denied outcome exactly when its token is valid
\* (an unexpired cache entry, or accepted by the validator) and the validated
\* scopes do not satisfy the required scope, and with the authentication
\* outcome exactly when its header is missing or malformed or its token was
\* not found valid; on the cache-hit path as on the cache-miss path.
C14_ForbiddenVersusUnauthenticated ==
    \A r \in Reqs :
        LET q == reqs[r]
            cf == acfg[q.m]
            fromCache == /\ q.obs.seen /\ q.obs.entry.present
                         /\ q.obs.time <= q.obs.entry.expiresAt
            fromRemote == q.asked = 1 /\ ~q.val.err /\ q.val.Valid
            tokenValid == q.hdr = "bearer" /\ (fromCache \/ fromRemote)
            res == IF fromCache THEN q.obs.entry.result ELSE q.val
            scopeOk == cf.RequiredScope = NoScope
                         \/ ScopeSatisfied(res.Scopes, cf.RequiredScope)
        IN  (q.pc = "done" /\ cf.Enabled /\ ~IsSkipped(mw, cf, q.path))
              => /\ q.out.status = "forbidden" <=> (tokenValid /\ ~scopeOk)
                 /\ q.out.status = "unauthenticated" <=> ~tokenValid
                 /\ q.out.status \in {"forbidden", "unauthenticated", "next"}

\* A cache hit whose scopes do not satisfy the required scope, answered with
\* the permission-denied outcome.
C14_Witness ==
    \E r \in Reqs :
        LET q == reqs[r] IN
        /\ q.pc = "done" /\ q.out.status = "forbidden"
        /\ q.obs.got.present /\ q.asked = 0
        /\ acfg[q.m].RequiredScope = ScopeSend
        /\ q.obs.got.result.Scopes = << <<"n", ":", "r">> >>
        /\ mw = "http"

\* C15: the rejection after a validator error and the rejection after the
\* validator answered Valid = false are never the same outcome: in each layer
\* the rejection of a request whose validator call failed carries the outage
\* message, and the rejection of a request whose token was found invalid
\* never carries it.
C15_OutageDistinguishable ==
    \A r \in Reqs :
        LET q == reqs[r]
            outage == IF mw = "http" THEN "Invalid service token"
                                     ELSE "token validation failed"
        IN  (q.pc = "done" /\ q.asked = 1 /\ q.out.status = "unauthenticated")
              => /\ q.val.err \/ ~q.val.Valid
                 /\ q.val.err <=> q.out.reason = outage
                 /\ q.out.attached = NoIdentity

\* A gRPC call rejected because the validator could not be reached.
C15_Witness ==
    \E r \in Reqs :
        /\ reqs[r].pc = "done" /\ reqs[r].asked = 1
        /\ reqs[r].val.err
        /\ reqs[r].out = Reject("unauthenticated", "token validation failed")
        /\ mw = "grpc"

\* C19: the context handed to TokenValidator.ValidateToken is cancelled when
\* the inbound call is cancelled or its deadline fires, in both layers: while
\* the validator is being asked, a cancelled inbound call means a cancelled
\* validator context.
C19_ValidatorCtxFollowsInbound ==
    \A r \in Reqs :
        (reqs[r].pc = "validate" /\ reqs[r].cancelled) => CtxDone(reqs[r])

\* C20: each middleware instance has its own token cache: a request is a
\* cache hit in an instance only for a token that this instance stored, so an
\* instance admits a request only after its own validator accepted the token.
C20_OneCachePerInstance ==
    \A r \in Reqs :
        LET q == reqs[r] IN
        (q.pc = "done" /\ q.obs.seen /\ q.obs.got.present)
          => q.m \in q.obs.last.by

\* C23: a request whose token has an unexpired cache entry is decided from
\* that entry and never asks the validator; a request whose token has no
\* unexpired entry asks the validator exactly once.
C23_HitSkipsValidator ==
    \A r \in Reqs :
        LET q == reqs[r]
            unexpired == q.obs.entry.present /\ q.obs.time <= q.obs.entry.expiresAt
        IN  q.obs.seen
              => /\ unexpired
                      => /\ q.pc = "done" /\ q.asked = 0
                         /\ q.out = Decide(mw, acfg[q.m], q.obs.entry.result)
                 /\ ~unexpired
                      => /\ q.pc = "validate" => q.asked = 0
                         /\ q.pc \in {"store", "done"} => q.asked = 1
                         /\ q.pc \in {"validate", "store", "done"}

\* A request decided from the cache, the validator not asked.
C23_Witness ==
    \E r \in Reqs :
        LET q == reqs[r] IN
        /\ q.pc = "done" /\ q.obs.seen /\ q.obs.entry.present
        /\ q.obs.time <= q.obs.entry.expiresAt
        /\ q.asked = 0 /\ q.out.status = "next"
        /\ q.obs.time > q.obs.last.at

\* C24: a set that leaves the table with more entries than the threshold
\* sweeps it: when the set returns the table holds no expired entry, and every
\* entry that was unexpired, the one just stored (its ttl is positive)
\* included, is still there unchanged.
C24_Step ==
    \A r \in Reqs :
        LET q == reqs[r]
            d == EffectiveTTL(acfg[q.m])
            stored == [tcache EXCEPT ![q.token] =
                         [present |-> TRUE, result |-> q.val, expiresAt |-> now + d]]
        IN  (q.pc = "store" /\ reqs'[r].pc = "done"
               /\ Cardinality({u \in Tokens : stored[u].present}) > SweepThreshold)
              => /\ d > 0
                 /\ tcache'[q.token] = stored[q.token]
                 /\ \A u \in Tokens :
                      /\ tcache'[u].present
                           => now <= tcache'[u].expiresAt /\ tcache'[u] = stored[u]
                      /\ (stored[u].present /\ now <= stored[u].expiresAt)
                           => tcache'[u] = stored[u]

C24_SetSweepsExpired == [][C24_Step]_vars

\* A request has just stored its token, and the expired entry of another
\* token, never invalidated or cleared, is gone from the table.
C24_Witness ==
    \E r \in Reqs :
        LET q == reqs[r] IN
        /\ q.pc = "done" /\ q.asked = 1 /\ q.val.Valid
        /\ tcache[q.token].present /\ tcache[q.token].result = q.val
        /\ \E u \in Tokens \ {q.token} :
              /\ lastSet[u].set /\ ~tcache[u].present
              /\ now > lastSet[u].at + lastSet[u].ttl

\* C25: a request whose validator call for a token was in flight when the
\* token was invalidated (or the cache cleared) does not put the token back
\* into the cache when it stores its answer.
C25_Step ==
    \A r \in Reqs :
        (reqs[r].pc = "store" /\ reqs[r].stale /\ reqs'[r].pc = "done")
          => ~tcache'[reqs[r].token].present

C25_NoStaleReinsert == [][C25_Step]_vars

\* C26: a cached entry never outlives the expiry the authority reported for
\* its token.
C26_LocalExpiryWithinAuthority ==
    \A t \in Tokens :
        (tcache[t].present /\ tcache[t].result.Valid)
          => tcache[t].expiresAt <= tcache[t].result.ExpiresAt

----------------------------------------------------------------------------
(* Claims about the scope check (SpecScope) *)

\* C13: for every list of granted scopes S and every required scope r, the
\* check answers true exactly when some s in S is "*", or is r, or r is
\* "resource:action" and s is "resource:*"; "n:*" satisfies "n:s", "*"
\* satisfies any r, "n:s" does not satisfy "n:n"; hasScopeInList and HasScope
\* give the same answer.
C13_ScopeMatching ==
    sout.asked
      => /\ sout.http = ScopeSatisfied(sgranted, srequired)
         /\ sout.grpc = sout.http
         /\ (sgranted = << <<"n", ":", "*">> >> /\ srequired = <<"n", ":", "s">>) => sout.http
         /\ (\E i \in 1..Len(sgranted) : sgranted[i] = <<"*">>) => sout.http
         /\ (sgranted = << <<"n", ":", "s">> >> /\ srequired = <<"n", ":", "n">>) => ~sout.http

\* The resource wildcard at work: "n:*" alone satisfied "n:s".
C13_Witness ==
    /\ sout.asked
    /\ sgranted = << <<"n", ":", "*">> >>
    /\ srequired = <<"n", ":", "s">>
    /\ sout.http /\ sout.grpc

----------------------------------------------------------------------------
(* Claims about the in-memory cache (SpecMemoryCache) *)

\* strings.HasPrefix on character sequences.
HasKeyPrefix(key, prefix) ==
    /\ Len(prefix) <= Len(key)
    /\ SubSeq(key, 1, Len(prefix)) = prefix

\* C21: Keys(pattern) returns exactly the stored keys that match the pattern
\* (prefix matching on the full key): every returned key matches, and every
\* stored key that matches is returned.
C21_Step ==
    \A p \in Patterns :
        MemoryCacheKeys(p)
          => mret'.keys = { fk \in FullKeys :
                              items[fk].present /\ HasKeyPrefix(fk, buildKey(options, p)) }

C21_KeysMatchPattern == [][C21_Step]_vars

\* C27: closing the cache twice does not panic.
C27_CloseIdempotent == ~mpanic

\* C28: whatever the prior state of the key, after Increment(key, d) returns
\* v an immediate Get returns v, and a following Increment(key, d2) returns
\* v + d2.
C28_Step ==
    \A k \in UserKeys, d \in Deltas :
        MemoryCacheIncrement(k, d)
          => LET fk == buildKey(options, k)
                 v == mret'.n
             IN  /\ getResult(items', fk, now') = [err |-> "nil", value |-> Marshal(v)]
                 /\ \A d2 \in Deltas : incrementValue(items', fk, d2, now') = v + d2

C28_IncrementLeavesLiveCounter == [][C28_Step]_vars

----------------------------------------------------------------------------
(* Claims about the shutdown manager (SpecShutdown) *)

RECURSIVE Reverse(_)
Reverse(q) == IF q = << >> THEN << >> ELSE Append(Reverse(Tail(q)), Head(q))

\* The hooks one shutdown() call has invoked so far are the first ones of its
\* snapshot read backwards, as many as the loop has got to.
RunsInReverse(run) ==
    LET n == Len(run.hooks)
        k == IF run.pc = "inhook" THEN n - run.i + 1 ELSE n - run.i
    IN  run.ran = SubSeq(Reverse(run.hooks), 1, k)

\* C29: a shutdown runs all hooks registered when it started, in reverse
\* order of registration, one after the other; a hook that returns an error
\* does not stop the remaining ones; and it closes the done channel (which
\* releases Wait) only after its last hook has returned.
C29_Inv ==
    /\ \A r \in Runners :
          LET run == runs[r] IN
          /\ run.pc \in {"loop", "inhook", "returned"}
                => /\ RunsInReverse(run)
                   /\ run.hooks = SubSeq(hooks, 1, Len(run.hooks))
          /\ run.pc = "returned" => run.ran = Reverse(run.hooks)
    /\ (doneClosed >= 1 \/ waiter = "released")
          => \E r \in Runners : runs[r].pc = "returned"

C29_Step ==
    \A r \in Runners :
        /\ (runs[r].pc = "begin" /\ runs'[r].pc # "begin") => runs'[r].hooks = hooks
        /\ (runs[r].pc # "returned" /\ runs'[r].pc = "returned")
              => /\ runs[r].pc = "loop"
                 /\ runs[r].ran = Reverse(runs[r].hooks)
                 /\ doneClosed' = doneClosed + 1

C30_ShutdownOnce ==
    /\ \A h \in HookNames : hookRuns[h] <= 1
    /\ doneClosed <= 1
    /\ ~spanic

----------------------------------------------------------------------------
(* Specifications *)

InitLimiter == now = 0 /\ LimInit /\ RetryIdle /\ BackoffIdle /\ AuthIdle /\ ScopeIdle /\ MemIdle /\ ShutIdle

SpecLimiter == InitLimiter /\ [][LimNext]_vars

InitRetry == now = 0 /\ LimIdle /\ RetryInit /\ BackoffIdle /\ AuthIdle /\ ScopeIdle /\ MemIdle /\ ShutIdle

SpecRetry == InitRetry /\ [][RetryNext]_vars

InitBackoff == now = 0 /\ LimIdle /\ RetryIdle /\ BackoffInit /\ AuthIdle /\ ScopeIdle /\ MemIdle /\ ShutIdle

SpecBackoff == InitBackoff /\ [][BackoffNext]_vars

InitAuth == now = 0 /\ LimIdle /\ RetryIdle /\ BackoffIdle /\ AuthInit /\ ScopeIdle /\ MemIdle /\ ShutIdle

SpecAuth == InitAuth /\ [][AuthNext]_vars

InitScope == now = 0 /\ LimIdle /\ RetryIdle /\ BackoffIdle /\ AuthIdle /\ ScopeInit /\ MemIdle /\ ShutIdle

SpecScope == InitScope /\ [][ScopeNext]_vars

InitMemoryCache ==
    /\ now = 0 /\ LimIdle /\ RetryIdle /\ BackoffIdle /\ AuthIdle /\ ScopeIdle
    /\ MemInit /\ ShutIdle

SpecMemoryCache == InitMemoryCache /\ [][MemNext]_vars

InitShutdown ==
    /\ now = 0 /\ LimIdle /\ RetryIdle /\ BackoffIdle /\ AuthIdle /\ ScopeIdle
    /\ MemIdle /\ ShutInit

SpecShutdown == InitShutdown /\ [][ShutNext]_vars

====
